---- MODULE Spec2Model ----
(***************************************************************************)
(* State-machine model of SinilinkAmplifierBluetooth                       *)
(* (custom_components/sinilink_amplifier/bluetooth.py): one session, its   *)
(* asyncio.Lock, the BLE client it drives, the notification handler and a  *)
(* set of concurrent callers of the public coroutines.                     *)
(*                                                                         *)
(* asyncio runs a coroutine without interruption from one await to the     *)
(* next, so every action below is the code between two suspension points.  *)
(* A transport call is issued by the action that reaches its await (the    *)
(* caller's pc names the call in flight) and returns, or raises, in a      *)
(* later action.  A task that has not reached an await keeps the event     *)
(* loop (running): acquire() on a free lock without waiters does not       *)
(* suspend, and a coroutine's return resumes its caller at once, so the    *)
(* caller takes the result (Observe) before any other task runs.           *)
(***************************************************************************)
EXTENDS Integers, Sequences, FiniteSets, TLC

\* ------------------------------------------------------------------------
\* Bounds and sample inputs
\* ------------------------------------------------------------------------
MaxFrameLen == 7

Procs == {"p1", "p2"}

Callbacks == {"cb1", "cb2"}

\* Optional[int] fields hold a byte 0..255 or None
None == -1

\* byte 5 / byte 4 of inbound frames
VolumeBytes == {20, 32}

InputBytes == {21}

\* arguments of set_volume / set_input
VolumeArgs == {0, 20, 32}

InputArgs == {21, 255}

\* set_volume arguments 0..MaxVolumeArg cover the accepted 1..31 and both rejected sides
MaxVolumeArg == 32

\* values of one element of a bytearray
Bytes == 0..255

\* requested volume levels are h / 62 for h up to MaxLevelHalves (62 is 1.0)
MaxLevelHalves == 64

\* the single caller of the codec specification
CodecProc == "p1"

NoProc == "none"

\* self._notification_callback is None
NoCallback == "none"

\* entity._current_input is None / no async_select_source in progress
NoSource == "none"

\* coordinator.data before the first refresh, and a refresh result without values
NoData == [volume |-> None, input_code |-> None]

\* the tasks of the platform: the coordinator's refresh and an entity service call
CoordinatorProc == "p1"

ServiceProc == "p2"

\* entity.async_on_bluetooth_notification, registered at media_player.py line 90
EntityCallback == "cb1"

VARIABLES
    client,                 \* self._client is not None
    linkUp,                 \* BleakClient.is_connected of the transport
    notifying,              \* start_notify subscription active on the transport
    volume_level,           \* self._volume_level
    input_code,             \* self._input_code
    is_connecting,          \* self._is_connecting
    lockOwner,              \* task holding self._lock, or NoProc
    lockWaiters,            \* FIFO of tasks waiting in self._lock.acquire()
    notification_callback,  \* self._notification_callback
    delivered,              \* callback invocations made by the step just taken
    disconnects,            \* consecutive disconnect() sections that last released the lock (2: two or more)
    running,                \* task executing between two awaits, or NoProc
    pc,                     \* per caller: suspension point
    op,                     \* per caller: public coroutine being run
    arg,                    \* per caller: its argument
    result,                 \* per caller: value returned
    touched,                \* per caller: this invocation issued a transport call
    failed,                 \* per caller: calls of this invocation that raised
    contended,              \* per caller: connect() was called while a connect attempt was in progress
    frame,                  \* per caller: bytes handed to write_gatt_char
    response,               \* per caller: response argument of that write_gatt_char call
    upd,                    \* position of the coordinator's async_update_data
    cycleFailed,            \* a session call of the current / last refresh cycle failed
    coordinator_data,       \* coordinator.data
    update_outcome,         \* how the last async_update_data ended: "data" or "UpdateFailed"
    setup,                  \* position of async_setup_entry
    available,              \* entity._attr_available
    entity_volume,          \* entity._volume_level, as the device byte v of v / 31.0
    current_input,          \* entity._current_input
    selected,               \* source argument of the async_select_source in progress
    turned_off              \* async_turn_off completed and no async_turn_on was called since

sessionVars == <<client, linkUp, notifying, volume_level, input_code,
                 is_connecting, notification_callback>>

lockVars == <<lockOwner, lockWaiters, disconnects>>

procVars == <<running, pc, op, arg, result, touched, failed, contended, frame, response>>

coordinatorVars == <<upd, cycleFailed, coordinator_data, update_outcome>>

entityVars == <<setup, available, entity_volume, current_input, selected, turned_off>>

platformVars == <<upd, cycleFailed, coordinator_data, update_outcome, setup, available, entity_volume,
                  current_input, selected, turned_off>>

vars == <<client, linkUp, notifying, volume_level, input_code, is_connecting,
          lockOwner, lockWaiters, notification_callback, delivered, disconnects,
          running, pc, op, arg, result, touched, failed, contended, frame, response,
          upd, cycleFailed, coordinator_data, update_outcome, setup, available, entity_volume,
          current_input, selected, turned_off>>

\* ------------------------------------------------------------------------
\* Return values
\* ------------------------------------------------------------------------
Pending == [kind |-> "pending", b |-> FALSE, v |-> None]

RetBool(b) == [kind |-> "bool", b |-> b, v |-> None]

RetValue(v) == [kind |-> "value", b |-> FALSE, v |-> v]

\* an exception left the coroutine
Raised == [kind |-> "raised", b |-> FALSE, v |-> None]

\* ------------------------------------------------------------------------
\* Frame codec
\* ------------------------------------------------------------------------
RECURSIVE SumBytes(_)
SumBytes(s) == IF s = <<>> THEN 0 ELSE Head(s) + SumBytes(Tail(s))

Checksum_SkipsHeader(data) == SumBytes(Tail(data)) % 256

\* checksum = sum(data) & 0xFF
Checksum(data) == SumBytes(data) % 256

VolumeFrame_ShortPad(volume) ==
    LET data == <<126, 15, 29, volume, 0, 0, 0, 0, 0, 0, 0, 0, 0>>
    IN  Append(data, Checksum(data))

\* bytearray([0x7e, 0x0f, 0x1d, volume, 0 x 10]) + checksum
VolumeFrame(volume) ==
    LET data == <<126, 15, 29, volume, 0, 0, 0, 0, 0, 0, 0, 0, 0, 0>>
    IN  Append(data, Checksum(data))

InputFrame_Unmasked(code) ==
    LET data == <<126, 5, code, 0>>
    IN  Append(data, SumBytes(data))

\* bytearray([0x7e, 0x05, input_code, 0x00]) + checksum
InputFrame(code) ==
    LET data == <<126, 5, code, 0>>
    IN  Append(data, Checksum(data))

\* Python data[i] (0-based) of a frame; the caller checks len(data) > i
ByteAt(data, i) == data[i + 1]

\* inbound frames: a 4-byte header, byte 4, byte 5 and one trailing byte,
\* cut to every length 0..MaxFrameLen
FrameOf(len, b4, b5) ==
    [i \in 1..len |-> IF i = 5 THEN b4 ELSE IF i = 6 THEN b5 ELSE 0]

Frames == {FrameOf(len, b4, b5) : len \in 0..MaxFrameLen, b4 \in InputBytes, b5 \in VolumeBytes}

\* ------------------------------------------------------------------------
\* Initial state: SinilinkAmplifierBluetooth.__init__
\* ------------------------------------------------------------------------
Init ==
    /\ client = FALSE
    /\ linkUp = FALSE
    /\ notifying = FALSE
    /\ volume_level = None
    /\ input_code = None
    /\ is_connecting = FALSE
    /\ lockOwner = NoProc
    /\ lockWaiters = <<>>
    /\ notification_callback = NoCallback
    /\ delivered = {}
    /\ disconnects = 0
    /\ running = NoProc
    /\ pc = [p \in Procs |-> "idle"]
    /\ op = [p \in Procs |-> "none"]
    /\ arg = [p \in Procs |-> None]
    /\ result = [p \in Procs |-> Pending]
    /\ touched = [p \in Procs |-> FALSE]
    /\ failed = [p \in Procs |-> {}]
    /\ contended = [p \in Procs |-> FALSE]
    /\ frame = [p \in Procs |-> <<>>]
    /\ response = [p \in Procs |-> FALSE]
    /\ upd = "idle"
    /\ cycleFailed = FALSE
    /\ coordinator_data = NoData
    /\ update_outcome = "none"
    /\ setup = "first_refresh"
    /\ available = FALSE
    /\ entity_volume = None
    /\ current_input = NoSource
    /\ selected = NoSource
    /\ turned_off = FALSE

\* ------------------------------------------------------------------------
\* asyncio.Lock: acquire() returns at once on a free lock without waiters,
\* otherwise queues the task; release() wakes the first waiter
\* ------------------------------------------------------------------------
LockFree == lockOwner = NoProc

CanAcquire_IgnoresLock(p) == lockWaiters # <<>> /\ Head(lockWaiters) = p

\* the task that acquire() lets through: the first in line, once the lock is free
CanAcquire(p) == LockFree /\ lockWaiters # <<>> /\ Head(lockWaiters) = p

\* the event loop is free to run the next ready task or transport callback
LoopIdle == running = NoProc

\* p is the task the event loop runs: it never suspended, or the loop resumes it
Scheduled(p) == running \in {NoProc, p}

IsConnected_Inverted == client /\ ~linkUp

\* self._client and self._client.is_connected
IsConnected == client /\ linkUp

\* suspension points at which a transport call is in flight
TransportPcs == {"ec_old_disc", "ec_connect", "ec_start_notify", "ec_read", "ec_fail_disc",
                 "dc_stop_notify", "dc_disc", "op_write", "op_read"}

\* the connect sequence of _ensure_connected
ConnectPcs == {"ec_old_disc", "ec_connect", "ec_start_notify", "ec_read", "ec_fail_disc"}

\* value a public coroutine returns when _ensure_connected() gave False
FailureResult(o) == IF o \in {"get_volume", "get_input"} THEN RetValue(None) ELSE RetBool(FALSE)

SnapshotResult_Swapped(o, vol, inp) == IF o = "get_volume" THEN RetValue(inp) ELSE RetValue(vol)

\* value get_volume / get_input return: the snapshot field as it stands
SnapshotResult(o, vol, inp) == IF o = "get_volume" THEN RetValue(vol) ELSE RetValue(inp)

\* the waiters once p has left the line: acquire() removes its own entry
WaitersWithout(p) == SelectSeq(lockWaiters, LAMBDA q : q # p)

\* p enters "async with self._lock" and reaches an await inside it
HoldsLockAwaiting(p, at) ==
    /\ lockOwner' = p
    /\ lockWaiters' = WaitersWithout(p)
    /\ pc' = [pc EXCEPT ![p] = at]
    /\ running' = NoProc

\* ------------------------------------------------------------------------
\* Public coroutines are called
\* ------------------------------------------------------------------------
VolumeInRange_FromZero(volume) == 0 <= volume /\ volume <= 31

\* set_volume() range check, lines 169-171
VolumeInRange(volume) == 1 <= volume /\ volume <= 31

\* the coroutine o starts running in task p, up to its first suspension point
Begin(p, o, a) ==
    /\ delivered' = {}
    /\ op' = [op EXCEPT ![p] = o]
    /\ arg' = [arg EXCEPT ![p] = a]
    /\ touched' = [touched EXCEPT ![p] = FALSE]
    /\ failed' = [failed EXCEPT ![p] = {}]
    /\ frame' = [frame EXCEPT ![p] = <<>>]
    /\ response' = [response EXCEPT ![p] = FALSE]
    /\ contended' = [contended EXCEPT ![p] = (o = "connect" /\ is_connecting)]
    /\ IF o = "set_volume" /\ ~VolumeInRange(a)
       THEN /\ pc' = [pc EXCEPT ![p] = "done"]
            /\ result' = [result EXCEPT ![p] = RetBool(FALSE)]
            /\ running' = p
            /\ UNCHANGED lockWaiters
       ELSE /\ pc' = [pc EXCEPT ![p] = IF o = "disconnect" THEN "dc_lock" ELSE "ec_lock"]
            /\ result' = [result EXCEPT ![p] = Pending]
            /\ running' = (IF LockFree /\ lockWaiters = <<>> THEN p ELSE NoProc)
            /\ lockWaiters' = Append(lockWaiters, p)
    /\ UNCHANGED <<sessionVars, lockOwner, disconnects>>

\* an idle task calls the coroutine o with argument a
CallOp(p, o, a) ==
    /\ LoopIdle
    /\ pc[p] = "idle"
    /\ Begin(p, o, a)
    /\ UNCHANGED platformVars

\* a task calls one of the six public coroutines, with a sampled argument
Call(p) ==
    \E o \in {"connect", "disconnect", "set_volume", "set_input", "get_volume", "get_input"} :
    \E a \in (IF o = "set_volume" THEN VolumeArgs ELSE IF o = "set_input" THEN InputArgs ELSE {None}) :
       CallOp(p, o, a)

\* a task calls set_volume or set_input, with any argument of the full range
CallCodec(p) ==
    \/ \E a \in 0..MaxVolumeArg : CallOp(p, "set_volume", a)
    \/ \E a \in Bytes : CallOp(p, "set_input", a)

\* ------------------------------------------------------------------------
\* _ensure_connected, lines 41-91
\* ------------------------------------------------------------------------
\* _ensure_connected returns b to its caller: connect() hands b on; the other
\* coroutines return their failure value or go on to "async with self._lock"
EnsureReturns(p, b) ==
    /\ lockOwner' = NoProc
    /\ disconnects' = 0
    /\ IF op[p] = "connect"
       THEN /\ pc' = [pc EXCEPT ![p] = "done"]
            /\ result' = [result EXCEPT ![p] = RetBool(b)]
            /\ lockWaiters' = WaitersWithout(p)
            /\ running' = p
       ELSE IF b
       THEN /\ pc' = [pc EXCEPT ![p] = "op_lock"]
            /\ result' = result
            /\ lockWaiters' = Append(WaitersWithout(p), p)
            /\ running' = (IF WaitersWithout(p) = <<>> THEN p ELSE NoProc)
       ELSE /\ pc' = [pc EXCEPT ![p] = "done"]
            /\ result' = [result EXCEPT ![p] = FailureResult(op[p])]
            /\ lockWaiters' = WaitersWithout(p)
            /\ running' = p

\* the lock is acquired; lines 44-75 up to the first await
EnsureConnected(p) ==
    /\ Scheduled(p)
    /\ delivered' = {}
    /\ UNCHANGED platformVars
    /\ pc[p] = "ec_lock"
    /\ CanAcquire(p)
    /\ IF IsConnected
       THEN \* line 45
            /\ EnsureReturns(p, TRUE)
            /\ UNCHANGED <<sessionVars, touched>>
       ELSE IF is_connecting
       THEN \* lines 48-51: await asyncio.sleep(0.5)
            /\ HoldsLockAwaiting(p, "ec_sleep")
            /\ UNCHANGED <<sessionVars, touched, result, disconnects>>
       ELSE \E found \in BOOLEAN :
            IF ~found
            THEN \* lines 59-61, then finally
                 /\ EnsureReturns(p, FALSE)
                 /\ is_connecting' = FALSE
                 /\ UNCHANGED <<client, linkUp, notifying, volume_level, input_code,
                                notification_callback, touched>>
            ELSE /\ is_connecting' = TRUE
                 /\ touched' = [touched EXCEPT ![p] = TRUE]
                 /\ IF client
                    THEN \* lines 64-66: await self._client.disconnect()
                         /\ HoldsLockAwaiting(p, "ec_old_disc")
                         /\ UNCHANGED <<client, linkUp, notifying>>
                    ELSE \* lines 71-75: a new BleakClient, await connect()
                         /\ HoldsLockAwaiting(p, "ec_connect")
                         /\ client' = TRUE
                         /\ linkUp' = FALSE
                         /\ notifying' = FALSE
                 /\ UNCHANGED <<volume_level, input_code, notification_callback,
                                result, disconnects>>
    /\ UNCHANGED <<op, arg, failed, contended, frame, response>>

\* line 66 returns or raises (lines 67-68); lines 69-75
OldClientCleanupReturns(p) ==
    /\ LoopIdle
    /\ delivered' = {}
    /\ UNCHANGED platformVars
    /\ pc[p] = "ec_old_disc"
    /\ client' = TRUE
    /\ linkUp' = FALSE
    /\ notifying' = FALSE
    /\ pc' = [pc EXCEPT ![p] = "ec_connect"]
    /\ touched' = [touched EXCEPT ![p] = TRUE]
    /\ UNCHANGED <<volume_level, input_code, is_connecting, notification_callback,
                   lockVars, running, op, arg, result, failed, contended, frame, response>>

\* line 75 returns or raises; on success _start_notifications runs to line 119,
\* on failure the except clause runs to line 85
ClientConnectReturns(p) ==
    /\ LoopIdle
    /\ delivered' = {}
    /\ UNCHANGED platformVars
    /\ pc[p] = "ec_connect"
    /\ \E ok \in BOOLEAN :
          IF ok
          THEN /\ linkUp' = TRUE
               /\ pc' = [pc EXCEPT ![p] = "ec_start_notify"]
               /\ UNCHANGED failed
          ELSE /\ linkUp' = linkUp
               /\ pc' = [pc EXCEPT ![p] = "ec_fail_disc"]
               /\ failed' = [failed EXCEPT ![p] = @ \cup {"connect"}]
    /\ touched' = [touched EXCEPT ![p] = TRUE]
    /\ UNCHANGED <<client, notifying, volume_level, input_code, is_connecting,
                   notification_callback, lockVars, running, op, arg, result,
                   contended, frame, response>>

\* line 119 returns or raises; lines 120-125, then line 80 and the finally
StartNotifyReturns(p) ==
    /\ LoopIdle
    /\ delivered' = {}
    /\ UNCHANGED platformVars
    /\ pc[p] = "ec_start_notify"
    /\ \E ok \in BOOLEAN :
          /\ ok => linkUp
          /\ IF ok
             THEN /\ notifying' = TRUE
                  /\ pc' = [pc EXCEPT ![p] = "ec_read"]
                  /\ touched' = [touched EXCEPT ![p] = TRUE]
                  /\ UNCHANGED <<failed, is_connecting, lockVars, running, result>>
             ELSE \* swallowed at lines 124-125; _ensure_connected returns True
                  /\ notifying' = notifying
                  /\ failed' = [failed EXCEPT ![p] = @ \cup {"start_notify"}]
                  /\ is_connecting' = FALSE
                  /\ EnsureReturns(p, TRUE)
                  /\ UNCHANGED touched
    /\ UNCHANGED <<client, linkUp, volume_level, input_code, notification_callback,
                   op, arg, contended, frame, response>>

\* line 122 returns or raises (swallowed at 124-125); line 80 and the finally
PrimingReadReturns(p) ==
    /\ LoopIdle
    /\ delivered' = {}
    /\ UNCHANGED platformVars
    /\ pc[p] = "ec_read"
    /\ \E ok \in BOOLEAN :
          /\ ok => linkUp
          /\ failed' = [failed EXCEPT ![p] = IF ok THEN @ ELSE @ \cup {"read"}]
    /\ is_connecting' = FALSE
    /\ EnsureReturns(p, TRUE)
    /\ UNCHANGED <<client, linkUp, notifying, volume_level, input_code,
                   notification_callback, op, arg, touched, contended, frame, response>>

CleanupDisconnectReturns_KeepsFlag(p) ==
    /\ LoopIdle
    /\ delivered' = {}
    /\ UNCHANGED platformVars
    /\ pc[p] = "ec_fail_disc"
    /\ \E ok \in BOOLEAN :
          /\ linkUp' = (IF ok THEN FALSE ELSE linkUp)
          /\ notifying' = (IF ok THEN FALSE ELSE notifying)
    /\ client' = FALSE
    /\ is_connecting' = is_connecting
    /\ EnsureReturns(p, FALSE)
    /\ UNCHANGED <<volume_level, input_code, notification_callback,
                   op, arg, touched, failed, contended, frame, response>>

\* line 85 returns or raises (lines 86-87); lines 88-91
CleanupDisconnectReturns(p) ==
    /\ LoopIdle
    /\ delivered' = {}
    /\ UNCHANGED platformVars
    /\ pc[p] = "ec_fail_disc"
    /\ \E ok \in BOOLEAN :
          /\ linkUp' = (IF ok THEN FALSE ELSE linkUp)
          /\ notifying' = (IF ok THEN FALSE ELSE notifying)
    /\ client' = FALSE
    /\ is_connecting' = FALSE
    /\ EnsureReturns(p, FALSE)
    /\ UNCHANGED <<volume_level, input_code, notification_callback,
                   op, arg, touched, failed, contended, frame, response>>

\* ------------------------------------------------------------------------
\* set_volume / set_input / get_volume / get_input after _ensure_connected
\* ------------------------------------------------------------------------
OperationReturns_KeepsLock(p, r) ==
    /\ lockOwner' = p
    /\ lockWaiters' = WaitersWithout(p)
    /\ disconnects' = 0
    /\ pc' = [pc EXCEPT ![p] = "done"]
    /\ result' = [result EXCEPT ![p] = r]
    /\ running' = p

\* a public coroutine leaves its "async with self._lock" block and returns r
OperationReturns(p, r) ==
    /\ lockOwner' = NoProc
    /\ lockWaiters' = WaitersWithout(p)
    /\ disconnects' = 0
    /\ pc' = [pc EXCEPT ![p] = "done"]
    /\ result' = [result EXCEPT ![p] = r]
    /\ running' = p

LockedOperation_Uncaught(p) ==
    /\ Scheduled(p)
    /\ delivered' = {}
    /\ UNCHANGED platformVars
    /\ pc[p] = "op_lock"
    /\ CanAcquire(p)
    /\ IF ~client
       THEN /\ OperationReturns(p, Raised)
            /\ failed' = [failed EXCEPT ![p] = @ \cup {"AttributeError"}]
            /\ UNCHANGED <<touched, frame, response>>
       ELSE /\ HoldsLockAwaiting(p, IF op[p] \in {"set_volume", "set_input"}
                                    THEN "op_write" ELSE "op_read")
            /\ touched' = [touched EXCEPT ![p] = TRUE]
            /\ frame' = [frame EXCEPT ![p] = IF op[p] = "set_volume" THEN VolumeFrame(arg[p])
                                             ELSE IF op[p] = "set_input" THEN InputFrame(arg[p])
                                             ELSE <<>>]
            /\ response' = [response EXCEPT ![p] = op[p] \in {"set_volume", "set_input"}]
            /\ UNCHANGED <<result, disconnects, failed>>
    /\ UNCHANGED <<sessionVars, op, arg, contended>>

\* lines 176-182, 196-199, 214-217, 231-237: the lock is acquired and the
\* write (response=True) / read is issued; self._client being None raises
\* AttributeError, which the except clause of each coroutine catches
LockedOperation(p) ==
    /\ Scheduled(p)
    /\ delivered' = {}
    /\ UNCHANGED platformVars
    /\ pc[p] = "op_lock"
    /\ CanAcquire(p)
    /\ IF ~client
       THEN /\ OperationReturns(p, IF op[p] \in {"set_volume", "set_input"}
                                    THEN RetBool(FALSE)
                                    ELSE SnapshotResult(op[p], volume_level, input_code))
            /\ failed' = [failed EXCEPT ![p] = @ \cup {"AttributeError"}]
            /\ UNCHANGED <<touched, frame, response>>
       ELSE /\ HoldsLockAwaiting(p, IF op[p] \in {"set_volume", "set_input"}
                                    THEN "op_write" ELSE "op_read")
            /\ touched' = [touched EXCEPT ![p] = TRUE]
            /\ frame' = [frame EXCEPT ![p] = IF op[p] = "set_volume" THEN VolumeFrame(arg[p])
                                             ELSE IF op[p] = "set_input" THEN InputFrame(arg[p])
                                             ELSE <<>>]
            /\ response' = [response EXCEPT ![p] = op[p] \in {"set_volume", "set_input"}]
            /\ UNCHANGED <<result, disconnects, failed>>
    /\ UNCHANGED <<sessionVars, op, arg, contended>>

WriteReturns_Optimistic(p) ==
    /\ LoopIdle
    /\ delivered' = {}
    /\ UNCHANGED platformVars
    /\ pc[p] = "op_write"
    /\ \E ok \in BOOLEAN :
          /\ ok => linkUp
          /\ failed' = [failed EXCEPT ![p] = IF ok THEN @ ELSE @ \cup {"write"}]
          /\ OperationReturns(p, RetBool(ok))
          /\ volume_level' = (IF ok /\ op[p] = "set_volume" THEN arg[p] ELSE volume_level)
          /\ input_code' = (IF ok /\ op[p] = "set_input" THEN arg[p] ELSE input_code)
    /\ UNCHANGED <<client, linkUp, notifying, is_connecting, notification_callback,
                   op, arg, touched, contended, frame, response>>

\* write_gatt_char(..., response=True) returns or raises: lines 182-188, 237-243
WriteReturns(p) ==
    /\ LoopIdle
    /\ delivered' = {}
    /\ UNCHANGED platformVars
    /\ pc[p] = "op_write"
    /\ \E ok \in BOOLEAN :
          /\ ok => linkUp
          /\ failed' = [failed EXCEPT ![p] = IF ok THEN @ ELSE @ \cup {"write"}]
          /\ OperationReturns(p, RetBool(ok))
    /\ UNCHANGED <<sessionVars, op, arg, touched, contended, frame, response>>

\* read_gatt_char returns (then asyncio.sleep(0.5)) or raises: lines 199-206, 217-224
ReadReturns(p) ==
    /\ LoopIdle
    /\ delivered' = {}
    /\ UNCHANGED platformVars
    /\ pc[p] = "op_read"
    /\ \E ok \in BOOLEAN :
          /\ ok => linkUp
          /\ IF ok
             THEN /\ pc' = [pc EXCEPT ![p] = "op_sleep"]
                  /\ UNCHANGED <<failed, lockVars, running, result>>
             ELSE /\ failed' = [failed EXCEPT ![p] = @ \cup {"status_read"}]
                  /\ OperationReturns(p, SnapshotResult(op[p], volume_level, input_code))
    /\ UNCHANGED <<sessionVars, op, arg, touched, contended, frame, response>>

\* asyncio.sleep(0.5) is over: the grace period of lines 202 / 220, or the
\* wait of line 51 followed by the re-check of lines 52-54
SleepReturns(p) ==
    /\ LoopIdle
    /\ delivered' = {}
    /\ UNCHANGED platformVars
    /\ pc[p] \in {"op_sleep", "ec_sleep"}
    /\ IF pc[p] = "op_sleep"
       THEN OperationReturns(p, SnapshotResult(op[p], volume_level, input_code))
       ELSE EnsureReturns(p, IsConnected)
    /\ UNCHANGED <<sessionVars, op, arg, touched, failed, contended, frame, response>>

\* ------------------------------------------------------------------------
\* disconnect, lines 93-105
\* ------------------------------------------------------------------------
DisconnectReturns_KeepsSnapshot(p) ==
    /\ client' = FALSE
    /\ UNCHANGED <<volume_level, input_code>>
    /\ lockOwner' = NoProc
    /\ lockWaiters' = WaitersWithout(p)
    /\ disconnects' = (IF disconnects = 0 THEN 1 ELSE 2)
    /\ pc' = [pc EXCEPT ![p] = "done"]
    /\ result' = [result EXCEPT ![p] = RetValue(None)]
    /\ running' = p

\* lines 103-105 and the end of the "async with" block
DisconnectReturns(p) ==
    /\ client' = FALSE
    /\ volume_level' = None
    /\ input_code' = None
    /\ lockOwner' = NoProc
    /\ lockWaiters' = WaitersWithout(p)
    /\ disconnects' = (IF disconnects = 0 THEN 1 ELSE 2)
    /\ pc' = [pc EXCEPT ![p] = "done"]
    /\ result' = [result EXCEPT ![p] = RetValue(None)]
    /\ running' = p

\* the lock is acquired; lines 96-99 and _stop_notifications to line 132
Disconnect(p) ==
    /\ Scheduled(p)
    /\ delivered' = {}
    /\ UNCHANGED platformVars
    /\ pc[p] = "dc_lock"
    /\ CanAcquire(p)
    /\ IF IsConnected
       THEN /\ HoldsLockAwaiting(p, "dc_stop_notify")
            /\ touched' = [touched EXCEPT ![p] = TRUE]
            /\ UNCHANGED <<client, volume_level, input_code, result, disconnects>>
       ELSE /\ DisconnectReturns(p)
            /\ UNCHANGED touched
    /\ UNCHANGED <<linkUp, notifying, is_connecting, notification_callback,
                   op, arg, failed, contended, frame, response>>

\* stop_notify returns or raises (lines 134-135); line 100 is issued
StopNotifyReturns(p) ==
    /\ LoopIdle
    /\ delivered' = {}
    /\ UNCHANGED platformVars
    /\ pc[p] = "dc_stop_notify"
    /\ \E ok \in BOOLEAN :
          /\ ok => linkUp
          /\ notifying' = (IF ok THEN FALSE ELSE notifying)
          /\ failed' = [failed EXCEPT ![p] = IF ok THEN @ ELSE @ \cup {"stop_notify"}]
    /\ pc' = [pc EXCEPT ![p] = "dc_disc"]
    /\ touched' = [touched EXCEPT ![p] = TRUE]
    /\ UNCHANGED <<client, linkUp, volume_level, input_code, is_connecting,
                   notification_callback, lockVars, running, op, arg, result,
                   contended, frame, response>>

\* self._client.disconnect() returns or raises (lines 101-102); lines 103-105
ClientDisconnectReturns(p) ==
    /\ LoopIdle
    /\ delivered' = {}
    /\ UNCHANGED platformVars
    /\ pc[p] = "dc_disc"
    /\ \E ok \in BOOLEAN :
          /\ linkUp' = (IF ok THEN FALSE ELSE linkUp)
          /\ notifying' = (IF ok THEN FALSE ELSE notifying)
          /\ failed' = [failed EXCEPT ![p] = IF ok THEN @ ELSE @ \cup {"disconnect"}]
    /\ DisconnectReturns(p)
    /\ UNCHANGED <<is_connecting, notification_callback, op, arg, touched,
                   contended, frame, response>>

\* ------------------------------------------------------------------------
\* _handle_notification, lines 137-164
\* ------------------------------------------------------------------------
NewVolume_WrongIndex(data) == IF Len(data) > 5 THEN ByteAt(data, 4) ELSE None

\* new_volume / new_input_code of lines 147-157
NewVolume(data) == IF Len(data) > 5 THEN ByteAt(data, 5) ELSE None

NewInputCode(data) == IF Len(data) > 4 THEN ByteAt(data, 4) ELSE None

CallbackInvoked_IgnoresSlot(data) == NewVolume(data) # None \/ NewInputCode(data) # None

\* line 162: the callback is invoked
CallbackInvoked(data) ==
    notification_callback # NoCallback /\ (NewVolume(data) # None \/ NewInputCode(data) # None)

HandleNotification(data) ==
    /\ volume_level' = (IF NewVolume(data) # None THEN NewVolume(data) ELSE volume_level)
    /\ input_code' = (IF NewInputCode(data) # None THEN NewInputCode(data) ELSE input_code)
    /\ delivered' = (IF CallbackInvoked(data)
                     THEN {<<notification_callback, volume_level', input_code'>>}
                     ELSE {})

\* the transport delivers a frame of the notify characteristic
Notification ==
    /\ LoopIdle
    /\ linkUp /\ notifying
    /\ \E data \in Frames : HandleNotification(data)
    /\ UNCHANGED <<client, linkUp, notifying, is_connecting, notification_callback,
                   lockVars, procVars, platformVars>>

\* set_notification_callback, lines 33-35
SetNotificationCallback ==
    /\ LoopIdle
    /\ delivered' = {}
    /\ UNCHANGED platformVars
    /\ \E cb \in Callbacks :
          /\ notification_callback # cb
          /\ notification_callback' = cb
    /\ UNCHANGED <<client, linkUp, notifying, volume_level, input_code, is_connecting,
                   lockVars, procVars>>

\* ------------------------------------------------------------------------
\* Environment and callers
\* ------------------------------------------------------------------------
\* the BLE link drops: is_connected turns False and the subscription is gone
LinkDrop ==
    /\ LoopIdle
    /\ delivered' = {}
    /\ UNCHANGED platformVars
    /\ linkUp
    /\ linkUp' = FALSE
    /\ notifying' = FALSE
    /\ UNCHANGED <<client, volume_level, input_code, is_connecting,
                   notification_callback, lockVars, procVars>>

\* the record of a returned call ends
TakesRecord(p) ==
    /\ running = p
    /\ pc[p] = "done"
    /\ delivered' = {}
    /\ running' = NoProc
    /\ pc' = [pc EXCEPT ![p] = "idle"]
    /\ op' = [op EXCEPT ![p] = "none"]
    /\ arg' = [arg EXCEPT ![p] = None]
    /\ result' = [result EXCEPT ![p] = Pending]
    /\ touched' = [touched EXCEPT ![p] = FALSE]
    /\ failed' = [failed EXCEPT ![p] = {}]
    /\ contended' = [contended EXCEPT ![p] = FALSE]
    /\ frame' = [frame EXCEPT ![p] = <<>>]
    /\ response' = [response EXCEPT ![p] = FALSE]

\* the caller of a session coroutine goes on with the returned value
Takes(p) ==
    /\ TakesRecord(p)
    /\ UNCHANGED <<sessionVars, lockVars>>

\* the awaiting caller takes the returned value; the record of the call ends
Observe(p) ==
    /\ Takes(p)
    /\ UNCHANGED platformVars

Next ==
    \/ \E p \in Procs : Call(p)
    \/ \E p \in Procs : EnsureConnected(p)
    \/ \E p \in Procs : OldClientCleanupReturns(p)
    \/ \E p \in Procs : ClientConnectReturns(p)
    \/ \E p \in Procs : StartNotifyReturns(p)
    \/ \E p \in Procs : PrimingReadReturns(p)
    \/ \E p \in Procs : CleanupDisconnectReturns(p)
    \/ \E p \in Procs : LockedOperation(p)
    \/ \E p \in Procs : WriteReturns(p)
    \/ \E p \in Procs : ReadReturns(p)
    \/ \E p \in Procs : SleepReturns(p)
    \/ \E p \in Procs : Disconnect(p)
    \/ \E p \in Procs : StopNotifyReturns(p)
    \/ \E p \in Procs : ClientDisconnectReturns(p)
    \/ \E p \in Procs : Observe(p)
    \/ Notification
    \/ SetNotificationCallback
    \/ LinkDrop

Spec == Init /\ [][Next]_vars

\* one caller issuing set_volume / set_input over the full argument ranges,
\* against a link that connects, fails to connect and drops
NextCodec ==
    \/ CallCodec(CodecProc)
    \/ EnsureConnected(CodecProc)
    \/ OldClientCleanupReturns(CodecProc)
    \/ ClientConnectReturns(CodecProc)
    \/ StartNotifyReturns(CodecProc)
    \/ PrimingReadReturns(CodecProc)
    \/ CleanupDisconnectReturns(CodecProc)
    \/ LockedOperation(CodecProc)
    \/ WriteReturns(CodecProc)
    \/ Observe(CodecProc)
    \/ LinkDrop

SpecCodec == Init /\ [][NextCodec]_vars

\* ========================================================================
\* media_player.py: source maps, coordinator and entity
\* ========================================================================
INPUT_SOURCE_MAP_Uncorrected ==
    (22 :> "aux") @@ (20 :> "bt") @@ (23 :> "sndcard") @@ (4 :> "usb")

\* const.py lines 14-19
INPUT_SOURCE_MAP ==
    (22 :> "aux") @@ (20 :> "bt") @@ (21 :> "sndcard") @@ (4 :> "usb")

\* const.py lines 21-26
INPUT_CODE_MAP ==
    ("aux" :> 22) @@ ("bt" :> 20) @@ ("sndcard" :> 21) @@ ("usb" :> 4)

\* INPUT_SOURCE_MAP.get(input_code, "Unknown")
SourceOf(code) ==
    IF code \in DOMAIN INPUT_SOURCE_MAP THEN INPUT_SOURCE_MAP[code] ELSE "Unknown"

\* source arguments of async_select_source: the source_list and a name outside it
SourceArgs == {"aux", "bt", "sndcard", "usb", "Unknown"}

\* frames that carry an input code only, one for every byte value
SourceFrames == {FrameOf(5, b4, 0) : b4 \in Bytes}

\* _handle_coordinator_update, lines 162-179
HandleCoordinatorUpdate(d) ==
    /\ entity_volume' = d.volume
    /\ current_input' = (IF d.input_code # None THEN SourceOf(d.input_code) ELSE NoSource)
    /\ available' = (d.volume # None \/ d.input_code # None)

\* async_on_bluetooth_notification, lines 149-160
OnBluetoothNotification(volume, code) ==
    /\ entity_volume' = (IF volume # None THEN volume ELSE entity_volume)
    /\ current_input' = (IF code # None THEN SourceOf(code) ELSE current_input)
    /\ available' = TRUE

\* async_update_data starts: lines 50-53, or 50-52 and 61
UpdateStart ==
    /\ LoopIdle
    /\ upd = "idle"
    /\ pc[CoordinatorProc] = "idle"
    /\ setup \in {"first_refresh", "added"}
    /\ cycleFailed' = FALSE
    /\ IF ~IsConnected
       THEN Begin(CoordinatorProc, "connect", None) /\ upd' = "ensure"
       ELSE Begin(CoordinatorProc, "get_volume", None) /\ upd' = "get_volume"
    /\ UNCHANGED <<coordinator_data, update_outcome, entityVars>>

\* the session call of p ended in a failure: the connection was not
\* established, or the status read was not made or raised
CallFailed(p) ==
    \/ result[p] = RetBool(FALSE)
    \/ op[p] \in {"get_volume", "get_input"}
       /\ failed[p] \cap {"connect", "status_read", "AttributeError"} # {}

\* a session call of async_update_data returned: line 53 goes on to 61, 61 to
\* 62; an exception goes to the except clause and its disconnect(), line 71
UpdateContinues ==
    /\ running = CoordinatorProc
    /\ pc[CoordinatorProc] = "done"
    /\ \/ upd \in {"ensure", "get_volume"}
       \/ upd = "get_input" /\ result[CoordinatorProc] = Raised
    /\ cycleFailed' = (cycleFailed \/ CallFailed(CoordinatorProc))
    /\ IF result[CoordinatorProc] = Raised
       THEN Begin(CoordinatorProc, "disconnect", None) /\ upd' = "except"
       ELSE IF upd = "ensure"
       THEN Begin(CoordinatorProc, "get_volume", None) /\ upd' = "get_volume"
       ELSE Begin(CoordinatorProc, "get_input", None) /\ upd' = "get_input"
    /\ UNCHANGED <<coordinator_data, update_outcome, entityVars>>

\* async_update_data ends: get_input() returned and lines 64-67 return the
\* snapshot, or the disconnect() of line 71 returned and line 72 raises.
\* The first refresh (line 83) is followed by lines 86-90, which construct
\* the entity and register its callback; the later ones by the entity's
\* _handle_coordinator_update
UpdateReturns ==
    /\ \/ upd = "except"
       \/ upd = "get_input" /\ result[CoordinatorProc] # Raised
    /\ TakesRecord(CoordinatorProc)
    /\ upd' = "idle"
    /\ IF upd = "except"
       THEN /\ update_outcome' = "UpdateFailed"
            /\ cycleFailed' = TRUE
            /\ UNCHANGED <<coordinator_data, entityVars, notification_callback>>
       ELSE /\ update_outcome' = "data"
            /\ cycleFailed' = (cycleFailed \/ CallFailed(CoordinatorProc))
            /\ coordinator_data' = [volume |-> volume_level, input_code |-> input_code]
            /\ IF setup = "first_refresh"
               THEN /\ setup' = "registered"
                    /\ notification_callback' = EntityCallback
                    /\ UNCHANGED <<available, entity_volume, current_input, selected, turned_off>>
               ELSE /\ HandleCoordinatorUpdate(coordinator_data')
                    /\ UNCHANGED <<setup, selected, turned_off, notification_callback>>
    /\ UNCHANGED <<client, linkUp, notifying, volume_level, input_code, is_connecting, lockVars>>

\* async_added_to_hass, lines 143-147
EntityAdded ==
    /\ LoopIdle
    /\ delivered' = {}
    /\ setup = "registered"
    /\ setup' = "added"
    /\ HandleCoordinatorUpdate(coordinator_data)
    /\ UNCHANGED <<sessionVars, lockVars, procVars, coordinatorVars, selected, turned_off>>

\* the transport delivers a frame and _handle_notification calls the
\* entity's async_on_bluetooth_notification (bluetooth.py line 162)
EntityNotification(frames) ==
    /\ LoopIdle
    /\ linkUp /\ notifying
    /\ \E f \in frames :
          /\ HandleNotification(f)
          /\ IF CallbackInvoked(f)
             THEN OnBluetoothNotification(volume_level', input_code')
             ELSE UNCHANGED <<available, entity_volume, current_input>>
    /\ UNCHANGED <<client, linkUp, notifying, is_connecting, notification_callback,
                   lockVars, procVars, coordinatorVars, setup, selected, turned_off>>

\* async_turn_on up to its await, line 228
TurnOn ==
    /\ LoopIdle
    /\ setup = "added"
    /\ pc[ServiceProc] = "idle"
    /\ Begin(ServiceProc, "connect", None)
    /\ turned_off' = FALSE
    /\ UNCHANGED <<coordinatorVars, setup, available, entity_volume, current_input, selected>>

\* async_turn_on after _ensure_connected() returned, lines 228-234
TurnOnReturns ==
    /\ op[ServiceProc] = "connect"
    /\ available' = (IF result[ServiceProc] = RetBool(TRUE) THEN available ELSE FALSE)
    /\ Takes(ServiceProc)
    /\ UNCHANGED <<coordinatorVars, setup, entity_volume, current_input, selected, turned_off>>

\* async_turn_off up to its await, line 239
TurnOff ==
    /\ LoopIdle
    /\ setup = "added"
    /\ pc[ServiceProc] = "idle"
    /\ Begin(ServiceProc, "disconnect", None)
    /\ UNCHANGED platformVars

\* async_turn_off after disconnect() returned, lines 240-243
TurnOffReturns ==
    /\ op[ServiceProc] = "disconnect"
    /\ available' = FALSE
    /\ entity_volume' = None
    /\ current_input' = NoSource
    /\ turned_off' = TRUE
    /\ Takes(ServiceProc)
    /\ UNCHANGED <<coordinatorVars, setup, selected>>

\* async_select_source up to its await: lines 212-218
SelectSource ==
    /\ LoopIdle
    /\ setup = "added"
    /\ pc[ServiceProc] = "idle"
    /\ \E source \in SourceArgs :
          IF source \notin DOMAIN INPUT_CODE_MAP
          THEN UNCHANGED vars
          ELSE /\ Begin(ServiceProc, "set_input", INPUT_CODE_MAP[source])
               /\ selected' = source
               /\ UNCHANGED <<coordinatorVars, setup, available, entity_volume, current_input, turned_off>>

\* async_select_source after set_input() returned, lines 218-223
SelectSourceReturns ==
    /\ op[ServiceProc] = "set_input"
    /\ selected' = NoSource
    /\ Takes(ServiceProc)
    /\ UNCHANGED <<coordinatorVars, setup, available, entity_volume, current_input, turned_off>>

\* Python round() of h / 2: to the nearest integer, a tie to the even one
PyRoundHalves(h) ==
    LET q == h \div 2
    IN  IF h % 2 = 0 THEN q ELSE IF q % 2 = 0 THEN q ELSE q + 1

\* Python min() and max() of two numbers
Min(a, b) == IF a <= b THEN a ELSE b

Max(a, b) == IF a >= b THEN a ELSE b

AmpVolume_NoClamp(h) == PyRoundHalves(h)

\* line 189: amp_volume = max(1, min(31, round(volume * 31))), for the
\* level volume = h / 62, i.e. volume * 31 = h / 2
AmpVolume(h) == Max(1, Min(31, PyRoundHalves(h)))

\* requested levels h / 62: every half step from below 0.0 to above 1.0
LevelArgs == (0 - 2)..MaxLevelHalves

\* frames that carry input 0x15 and a volume byte: every value around the
\* range 1..31, and the largest byte
VolumeFrames == {FrameOf(6, 21, b5) : b5 \in (0..MaxVolumeArg) \cup {255}}

\* async_set_volume_level(h / 62) up to its await: lines 189-191
SetVolumeLevelTo(h) ==
    /\ Begin(ServiceProc, "set_volume", AmpVolume(h))
    /\ UNCHANGED platformVars

SetVolumeLevel ==
    /\ LoopIdle
    /\ setup = "added"
    /\ pc[ServiceProc] = "idle"
    /\ \E h \in LevelArgs : SetVolumeLevelTo(h)

\* async_volume_up, lines 198-202: the entity's level is entity_volume / 31.0,
\* new_volume = min(1.0, level + 1 / 31.0)
VolumeUp ==
    /\ LoopIdle
    /\ setup = "added"
    /\ pc[ServiceProc] = "idle"
    /\ IF entity_volume = None
       THEN UNCHANGED vars
       ELSE SetVolumeLevelTo(Min(62, 2 * entity_volume + 2))

\* async_volume_down, lines 204-208: new_volume = max(0.0, level - 1 / 31.0)
VolumeDown ==
    /\ LoopIdle
    /\ setup = "added"
    /\ pc[ServiceProc] = "idle"
    /\ IF entity_volume = None
       THEN UNCHANGED vars
       ELSE SetVolumeLevelTo(Max(0, 2 * entity_volume - 2))

\* async_set_volume_level after set_volume() returned, lines 191-196
SetVolumeLevelReturns ==
    /\ op[ServiceProc] = "set_volume"
    /\ Takes(ServiceProc)
    /\ UNCHANGED platformVars

\* the steps of the session coroutine that task p runs
SessionStep(p) ==
    \/ EnsureConnected(p)
    \/ OldClientCleanupReturns(p)
    \/ ClientConnectReturns(p)
    \/ StartNotifyReturns(p)
    \/ PrimingReadReturns(p)
    \/ CleanupDisconnectReturns(p)
    \/ LockedOperation(p)
    \/ ReadReturns(p)
    \/ SleepReturns(p)
    \/ Disconnect(p)
    \/ StopNotifyReturns(p)
    \/ ClientDisconnectReturns(p)

\* the platform: periodic and requested refreshes of the coordinator, the
\* entity's notification callback, turn_on and turn_off, over a link that
\* connects, fails and drops
NextEntity ==
    \/ UpdateStart
    \/ UpdateContinues
    \/ UpdateReturns
    \/ EntityAdded
    \/ EntityNotification(Frames)
    \/ TurnOn
    \/ TurnOnReturns
    \/ TurnOff
    \/ TurnOffReturns
    \/ LinkDrop
    \/ \E p \in Procs : SessionStep(p)

SpecEntity == Init /\ [][NextEntity]_vars

\* the platform once set up against a device that was not reachable during
\* the first refresh: the entity is added and its callback registered, the
\* session is still without client and snapshot
InitSource ==
    /\ client = FALSE
    /\ linkUp = FALSE
    /\ notifying = FALSE
    /\ volume_level = None
    /\ input_code = None
    /\ is_connecting = FALSE
    /\ lockOwner = NoProc
    /\ lockWaiters = <<>>
    /\ notification_callback = EntityCallback
    /\ delivered = {}
    /\ disconnects = 0
    /\ running = NoProc
    /\ pc = [p \in Procs |-> "idle"]
    /\ op = [p \in Procs |-> "none"]
    /\ arg = [p \in Procs |-> None]
    /\ result = [p \in Procs |-> Pending]
    /\ touched = [p \in Procs |-> FALSE]
    /\ failed = [p \in Procs |-> {}]
    /\ contended = [p \in Procs |-> FALSE]
    /\ frame = [p \in Procs |-> <<>>]
    /\ response = [p \in Procs |-> FALSE]
    /\ upd = "idle"
    /\ cycleFailed = TRUE
    /\ coordinator_data = NoData
    /\ update_outcome = "data"
    /\ setup = "added"
    /\ available = FALSE
    /\ entity_volume = None
    /\ current_input = NoSource
    /\ selected = NoSource
    /\ turned_off = FALSE

\* input codes in both directions: the device reports any byte as its input,
\* the user selects any source
NextSource ==
    \/ SelectSource
    \/ SelectSourceReturns
    \/ EntityNotification(SourceFrames)
    \/ EnsureConnected(ServiceProc)
    \/ OldClientCleanupReturns(ServiceProc)
    \/ ClientConnectReturns(ServiceProc)
    \/ StartNotifyReturns(ServiceProc)
    \/ PrimingReadReturns(ServiceProc)
    \/ CleanupDisconnectReturns(ServiceProc)
    \/ LockedOperation(ServiceProc)
    \/ WriteReturns(ServiceProc)
    \/ LinkDrop

SpecSource == InitSource /\ [][NextSource]_vars

\* volume commands of the entity against volumes reported by the device
NextVolume ==
    \/ SetVolumeLevel
    \/ VolumeUp
    \/ VolumeDown
    \/ SetVolumeLevelReturns
    \/ EntityNotification(VolumeFrames)
    \/ EnsureConnected(ServiceProc)
    \/ OldClientCleanupReturns(ServiceProc)
    \/ ClientConnectReturns(ServiceProc)
    \/ StartNotifyReturns(ServiceProc)
    \/ PrimingReadReturns(ServiceProc)
    \/ CleanupDisconnectReturns(ServiceProc)
    \/ LockedOperation(ServiceProc)
    \/ WriteReturns(ServiceProc)
    \/ LinkDrop

SpecVolume == InitSource /\ [][NextVolume]_vars

\* the session under concurrent callers, without inbound notifications
NextLive ==
    \/ \E p \in Procs : Call(p)
    \/ \E p \in Procs : SessionStep(p)
    \/ \E p \in Procs : WriteReturns(p)
    \/ \E p \in Procs : Observe(p)
    \/ LinkDrop

\* every transport call and sleep eventually returns or raises, the lock is
\* handed to its first waiter (asyncio.Lock is FIFO), and the event loop
\* resumes a task whose await has completed
Fairness ==
    \A p \in Procs :
        /\ SF_vars(SessionStep(p))
        /\ SF_vars(WriteReturns(p))
        /\ SF_vars(Observe(p))

SpecLive == Init /\ [][NextLive]_vars /\ Fairness

\* ------------------------------------------------------------------------
\* Type invariant
\* ------------------------------------------------------------------------
TypeOK ==
    /\ client \in BOOLEAN /\ linkUp \in BOOLEAN /\ notifying \in BOOLEAN
    /\ volume_level \in Bytes \cup {None}
    /\ input_code \in Bytes \cup {None}
    /\ is_connecting \in BOOLEAN
    /\ lockOwner \in Procs \cup {NoProc}
    /\ running \in Procs \cup {NoProc}
    /\ notification_callback \in Callbacks \cup {NoCallback}
    /\ disconnects \in 0..2
    /\ \A p \in Procs : touched[p] \in BOOLEAN /\ response[p] \in BOOLEAN
    /\ upd \in {"idle", "ensure", "get_volume", "get_input", "except"}
    /\ cycleFailed \in BOOLEAN
    /\ coordinator_data \in [volume : Bytes \cup {None}, input_code : Bytes \cup {None}]
    /\ update_outcome \in {"none", "data", "UpdateFailed"}
    /\ setup \in {"first_refresh", "registered", "added"}
    /\ available \in BOOLEAN
    /\ entity_volume \in Bytes \cup {None}
    /\ current_input \in {"aux", "bt", "sndcard", "usb", "Unknown", NoSource}
    /\ selected \in DOMAIN INPUT_CODE_MAP \cup {NoSource}
    /\ turned_off \in BOOLEAN

\* ========================================================================
\* Properties
\* ========================================================================
SetOps == {"set_volume", "set_input"}

\* callers with a transport call, or the grace wait that follows a read, in flight
InFlight == {p \in Procs : pc[p] \in TransportPcs \cup {"op_sleep"}}

\* C1: at most one transport operation (link connect / disconnect, start /
\* stop notify, write, read with its grace wait) is in flight at any time,
\* and the caller it belongs to holds the session lock.
C1_OneInFlight ==
    /\ Cardinality(InFlight) <= 1
    /\ \A p \in InFlight : lockOwner = p

\* two get_volume calls are open at once: one in its read + grace wait, the
\* other held back at the lock
C1_Witness ==
    \E p, q \in Procs :
        /\ p # q
        /\ op[p] = "get_volume" /\ pc[p] \in {"op_read", "op_sleep"}
        /\ op[q] = "get_volume" /\ pc[q] \in {"ec_lock", "op_lock"}

\* C2: connect() on a session whose client is connected returns True in the
\* step that takes the lock, issues no transport call and leaves the client
\* handle, the link, the snapshot and the callback slot unchanged.
C2_ConnectWhileConnected ==
    [][\A p \in Procs :
          (pc[p] = "ec_lock" /\ op[p] = "connect" /\ client /\ linkUp /\ pc'[p] # "ec_lock")
          => /\ pc'[p] = "done"
             /\ result'[p] = RetBool(TRUE)
             /\ ~touched'[p]
             /\ UNCHANGED <<client, linkUp, notifying, volume_level, input_code,
                            notification_callback, is_connecting>>]_vars

\* a connect() that returned True without any transport call
C2_Witness ==
    \E p \in Procs :
        /\ pc[p] = "done" /\ op[p] = "connect"
        /\ result[p] = RetBool(TRUE) /\ ~touched[p]
        /\ client /\ linkUp

\* C3 (as claimed): a connect() called while another caller's connect attempt
\* is in progress never starts a connect sequence of its own, and returns
\* False when the session is not connected once it has waited.
C3_NoDuplicateAttempt ==
    \A p \in Procs :
        contended[p] =>
            /\ pc[p] \notin ConnectPcs
            /\ (pc[p] = "done" /\ ~(client /\ linkUp)) => result[p] = RetBool(FALSE)

\* C4 (as claimed): a connect() in which the link connect, the notification
\* subscribe or the priming read failed returns False and leaves the session
\* without client and without link.
C4_FailedSequenceFailsConnect ==
    \A p \in Procs :
        (pc[p] = "done" /\ op[p] = "connect"
            /\ failed[p] \cap {"connect", "start_notify", "read"} # {})
        => (result[p] = RetBool(FALSE) /\ ~client /\ ~linkUp)

\* C5 (as claimed): every connect() that returns False leaves _client None.
C5_FailedConnectClearsClient ==
    \A p \in Procs :
        (pc[p] = "done" /\ op[p] = "connect" /\ result[p] = RetBool(FALSE)) => ~client

\* C6: when disconnect() returns, whatever the prior state and whichever
\* transport call raised, the client handle is cleared, the snapshot is
\* empty and no exception left the call; a disconnect() that runs right
\* after another disconnect() issued no transport call.
C6_DisconnectResets ==
    \A p \in Procs :
        (pc[p] = "done" /\ op[p] = "disconnect")
        => /\ ~client
           /\ volume_level = None /\ input_code = None
           /\ result[p] # Raised
           /\ (disconnects = 2 => ~touched[p])

\* the second of two disconnect() calls in a row has returned
C6_Witness ==
    \E p \in Procs :
        /\ pc[p] = "done" /\ op[p] = "disconnect"
        /\ disconnects = 2 /\ ~touched[p]

\* a step in which the transport delivered the frame data to _handle_notification
NotificationOf(data) ==
    /\ linkUp /\ notifying /\ LoopIdle
    /\ HandleNotification(data)
    /\ UNCHANGED <<client, linkUp, notifying, is_connecting, notification_callback,
                   lockVars, procVars>>

\* a step in which a disconnect() reaches lines 103-105
DisconnectFinishes ==
    \E p \in Procs : op[p] = "disconnect" /\ pc[p] \in {"dc_lock", "dc_disc"} /\ pc'[p] = "done"

\* C7: no step of set_volume / set_input changes the snapshot, whether the
\* write succeeds or fails; the snapshot changes only in the notification
\* handler and at the end of disconnect().
C7_SnapshotOnlyFromDevice ==
    [][/\ \A p \in Procs :
             ((op[p] \in SetOps \/ op'[p] \in SetOps) /\ pc'[p] # pc[p])
             => UNCHANGED <<volume_level, input_code>>
       /\ (volume_level' # volume_level \/ input_code' # input_code)
             => ((\E data \in Frames : NotificationOf(data)) \/ DisconnectFinishes)]_vars

\* set_volume(v) returned True while the snapshot holds another volume
C7_Witness ==
    \E p \in Procs :
        /\ pc[p] = "done" /\ op[p] = "set_volume"
        /\ result[p] = RetBool(TRUE)
        /\ volume_level # arg[p]

\* C8: set_volume(v) with v outside 1..31 returns False in the calling step:
\* the caller never waits for the lock, no transport call is issued, no
\* frame is built for the wire and the session and the lock are unchanged.
C8_OutOfRangeRejected ==
    [][\A p \in Procs :
          (pc[p] = "idle" /\ op'[p] = "set_volume" /\ arg'[p] \notin 1..31)
          => /\ pc'[p] = "done"
             /\ result'[p] = RetBool(FALSE)
             /\ ~touched'[p]
             /\ frame'[p] = <<>>
             /\ UNCHANGED <<sessionVars, lockVars>>]_vars

\* set_volume(32) has returned False
C8_Witness ==
    \E p \in Procs :
        /\ pc[p] = "done" /\ op[p] = "set_volume" /\ arg[p] = 32
        /\ result[p] = RetBool(FALSE) /\ ~touched[p]

\* C9: a frame longer than 5 bytes sets volume to byte 5 and input to byte 4;
\* a frame of exactly 5 bytes sets input to byte 4 and keeps the volume; a
\* frame of at most 4 bytes changes neither field and invokes no observer.
C9_NotificationFields ==
    [][\A data \in Frames :
          NotificationOf(data)
          => /\ Len(data) > 5 => (volume_level' = data[6] /\ input_code' = data[5])
             /\ Len(data) = 5 => (volume_level' = volume_level /\ input_code' = data[5])
             /\ Len(data) <= 4 => (UNCHANGED <<volume_level, input_code>> /\ delivered' = {})]_vars

\* a 5-byte frame reached an empty snapshot: the input is known, the volume is not
C9_Witness ==
    /\ volume_level = None
    /\ input_code = 21
    /\ delivered # {}

\* C10 (as claimed): a notification that changes neither snapshot field
\* invokes no observer callback.
C10_CallbackOnlyOnChange ==
    [][\A data \in Frames :
          (NotificationOf(data) /\ UNCHANGED <<volume_level, input_code>>)
          => delivered' = {}]_vars

\* C11: every call of connect, disconnect, set_volume, set_input, get_volume
\* and get_input returns a value of its declared kind (bool, or an optional
\* snapshot value): no exception raised by the transport, nor the
\* AttributeError of a client handle cleared by an interleaved disconnect(),
\* leaves the coroutine.
C11_NoExceptionEscapes ==
    \A p \in Procs :
        pc[p] = "done" =>
            /\ result[p] # Raised
            /\ result[p].kind = (IF op[p] \in {"connect", "set_volume", "set_input"}
                                 THEN "bool" ELSE "value")

\* a disconnect() ran between the connection check and the write / read of a
\* call, which met self._client = None and still returned
C11_Witness ==
    \E p \in Procs :
        /\ pc[p] = "done"
        /\ op[p] \in {"set_volume", "get_volume"}
        /\ "AttributeError" \in failed[p]

\* C14 (as claimed): at the end of every operation, a cleared client handle
\* comes with an empty snapshot.
C14_TornDownTogether ==
    \A p \in Procs :
        (pc[p] = "done" /\ ~client) => (volume_level = None /\ input_code = None)

\* C16 (as claimed): the frame set_volume(20) writes ends in the checksum
\* byte 0x98.
C16_ChecksumIs0x98 ==
    \A p \in Procs :
        (op[p] = "set_volume" /\ arg[p] = 20 /\ frame[p] # <<>>) => frame[p][15] = 152

\* C16 (amended): the frame set_volume(20) writes is 15 bytes long and ends
\* in the checksum byte 0xBE = (0x7E + 0x0F + 0x1D + 0x14) mod 256.
C16_ChecksumIs0xBE ==
    \A p \in Procs :
        (op[p] = "set_volume" /\ arg[p] = 20 /\ frame[p] # <<>>)
        => (Len(frame[p]) = 15 /\ frame[p][15] = 190)

\* a connected session has executed set_volume(20) and the write went through
C16_Witness ==
    \E p \in Procs :
        /\ pc[p] = "done" /\ op[p] = "set_volume" /\ arg[p] = 20
        /\ result[p] = RetBool(TRUE)
        /\ frame[p] # <<>>

\* C19: the session has one observer slot, changed only by
\* set_notification_callback, which overwrites it.  A notification invokes at
\* most one callback, the one in the slot at that moment (the most recently
\* registered), and invokes it whenever the frame carries a field; with an
\* empty slot it invokes nothing and still updates the snapshot.
C19_SingleObserverSlot ==
    [][/\ notification_callback' # notification_callback
          => (notification_callback' \in Callbacks /\ delivered' = {}
              /\ UNCHANGED <<volume_level, input_code>>)
       /\ \A data \in Frames :
             NotificationOf(data) =>
                /\ delivered' \subseteq {<<notification_callback, volume_level', input_code'>>}
                /\ (notification_callback = NoCallback => delivered' = {})
                /\ (notification_callback # NoCallback /\ Len(data) > 4) => delivered' # {}
                /\ Len(data) > 5 => volume_level' = data[6]
                /\ Len(data) > 4 => input_code' = data[5]]_vars

\* cb2 is in the slot and a notification has just invoked it, and only it
C19_Witness ==
    /\ notification_callback = "cb2"
    /\ \E v \in VolumeBytes \cup {None}, i \in InputBytes : delivered = {<<"cb2", v, i>>}

\* a notification arrived before any registration: snapshot set, nothing invoked
C19_WitnessUnregistered ==
    /\ notification_callback = NoCallback
    /\ input_code # None
    /\ delivered = {}

GetOps == {"get_volume", "get_input"}

\* a step in which the call of p returns
Returns(p) == pc[p] # "done" /\ pc'[p] = "done"

\* C20 (as claimed): a get_volume / get_input call whose connection was
\* ensured returns only once its read has been issued and the grace period
\* that follows it is over.
C20_AlwaysReadThenGrace ==
    [][\A p \in Procs :
          (op[p] \in GetOps /\ Returns(p) /\ pc[p] \in {"op_lock", "op_read", "op_sleep"})
          => pc[p] = "op_sleep"]_vars

\* C20 (amended): get_volume / get_input issue their read only after the
\* connection was ensured and at most once; the grace period follows only a
\* read that returned.  The call returns the snapshot field as it stands
\* at the moment of return: after the grace period, or at once when the read
\* raised or an interleaved disconnect() had cleared the client handle (then
\* with no read).  If the connection cannot be ensured it returns None and
\* issues no read of its own.
C20_ReadGraceSnapshot ==
    [][\A p \in Procs : op[p] \in GetOps =>
          /\ pc'[p] = "op_read" /\ pc[p] # "op_read" => (pc[p] = "op_lock" /\ client)
          /\ pc'[p] = "op_sleep" /\ pc[p] # "op_sleep" => (pc[p] = "op_read" /\ linkUp)
          /\ pc'[p] = "op_lock" /\ pc[p] # "op_lock" => pc[p] \in {"ec_lock"} \cup ConnectPcs
          /\ Returns(p) =>
                /\ pc[p] \in {"op_sleep", "op_read", "op_lock", "ec_lock", "ec_sleep"} \cup ConnectPcs
                /\ pc[p] \in {"op_sleep", "op_read", "op_lock"}
                   => /\ result'[p] = RetValue(IF op[p] = "get_volume"
                                                THEN volume_level' ELSE input_code')
                      /\ UNCHANGED <<volume_level, input_code>>
                /\ pc[p] = "op_read" => "status_read" \in failed'[p]
                /\ pc[p] = "op_lock" => (~client /\ "AttributeError" \in failed'[p])
                /\ pc[p] \in {"ec_lock", "ec_sleep"} \cup ConnectPcs
                   => (result'[p] = RetValue(None) /\ ~IsConnected')]_vars

\* get_volume returned the value a notification put into the snapshot, after
\* its read and the grace period
C20_Witness ==
    \E p \in Procs :
        /\ pc[p] = "done" /\ op[p] = "get_volume"
        /\ failed[p] = {}
        /\ result[p] = RetValue(32)

\* C15: for every v in 1..31, set_volume(v) on a connected session hands
\* write_gatt_char exactly the 15 bytes 7E 0F 1D v, ten 00, and the sum of
\* those 14 bytes mod 256, with response requested; nothing else is ever
\* written by set_volume.
C15_VolumeFrame ==
    \A p \in Procs :
        op[p] = "set_volume" =>
            /\ (pc[p] = "op_write" \/ frame[p] # <<>>) =>
                  /\ arg[p] \in 1..31
                  /\ Len(frame[p]) = 15
                  /\ SubSeq(frame[p], 1, 4) = <<126, 15, 29, arg[p]>>
                  /\ \A i \in 5..14 : frame[p][i] = 0
                  /\ frame[p][15] =
                        (frame[p][1] + frame[p][2] + frame[p][3] + frame[p][4] + frame[p][5]
                         + frame[p][6] + frame[p][7] + frame[p][8] + frame[p][9] + frame[p][10]
                         + frame[p][11] + frame[p][12] + frame[p][13] + frame[p][14]) % 256
                  /\ response[p]
            /\ (pc[p] = "done" /\ result[p] = RetBool(TRUE)) => frame[p] # <<>>

\* set_volume(31), the top of the range, was written and acknowledged
C15_Witness ==
    \E p \in Procs :
        /\ pc[p] = "done" /\ op[p] = "set_volume" /\ arg[p] = 31
        /\ result[p] = RetBool(TRUE)
        /\ Len(frame[p]) = 15

\* C17: for every code in 0..255, set_input(code) is never rejected at entry,
\* and on a connected session hands write_gatt_char exactly the 5 bytes
\* 7E 05 code 00 and (0x7E + 0x05 + code) mod 256, with response requested,
\* whether or not the code is one of the four known inputs.
C17_InputFrame ==
    [][\A p \in Procs :
          /\ (pc[p] = "idle" /\ op'[p] = "set_input") => pc'[p] = "ec_lock"
          /\ (op[p] = "set_input" /\ pc[p] = "op_lock" /\ pc'[p] # "op_lock" /\ client)
             => /\ pc'[p] = "op_write"
                /\ frame'[p] = <<126, 5, arg[p], 0, (126 + 5 + arg[p]) % 256>>
                /\ response'[p]
          /\ (op[p] = "set_input" /\ frame'[p] # frame[p] /\ frame'[p] # <<>>)
             => (pc[p] = "op_lock" /\ client)]_vars

\* set_input(255), a code outside the four known ones whose checksum wraps
\* (0x82), was written and acknowledged
C17_Witness ==
    \E p \in Procs :
        /\ pc[p] = "done" /\ op[p] = "set_input" /\ arg[p] = 255
        /\ result[p] = RetBool(TRUE)
        /\ frame[p] = <<126, 5, 255, 0, 130>>

\* C12 (as claimed): a refresh cycle of async_update_data in which a session
\* call failed (the connection was not established, or the status read was
\* not made or raised) ends in UpdateFailed with the session disconnected,
\* not in a returned (volume, input) result.
C12_FailureEscalates ==
    [][(upd # "idle" /\ upd' = "idle" /\ cycleFailed')
       => (update_outcome' = "UpdateFailed" /\ ~client'
           /\ volume_level' = None /\ input_code' = None)]_vars

\* C13 (as claimed): the entity is marked available only if a volume or an
\* input is known and the session's client handle is present and connected.
C13_AvailableOnlyIfLinked ==
    available =>
        /\ volume_level # None \/ input_code # None
           \/ entity_volume # None \/ current_input # NoSource
        /\ IsConnected

\* C18: each of the four codes 0x16, 0x14, 0x15, 0x04 reported by the device
\* is presented as a source name that INPUT_CODE_MAP takes back to that code;
\* each of the four names selected by the user is sent as a code that
\* INPUT_SOURCE_MAP takes back to that name; every other code is presented,
\* on every lookup, as "Unknown", which is none of the four names.
C18_SourceRoundTrip ==
    /\ input_code # None =>
          IF input_code \in {22, 20, 21, 4}
          THEN /\ current_input \in {"aux", "bt", "sndcard", "usb"}
               /\ INPUT_CODE_MAP[current_input] = input_code
          ELSE /\ current_input = "Unknown"
               /\ current_input \notin DOMAIN INPUT_CODE_MAP
    /\ selected # NoSource =>
          /\ selected \in {"aux", "bt", "sndcard", "usb"}
          /\ arg[ServiceProc] = INPUT_CODE_MAP[selected]
          /\ arg[ServiceProc] \in {22, 20, 21, 4}
          /\ SourceOf(arg[ServiceProc]) = selected

\* the device reported the code 0x17, shown as "Unknown", and the user's
\* selection of "sndcard" was written as code 0x15
C18_Witness ==
    /\ input_code = 23 /\ current_input = "Unknown"
    /\ selected = "sndcard"
    /\ pc[ServiceProc] = "done" /\ result[ServiceProc] = RetBool(TRUE)
    /\ frame[ServiceProc][3] = 21

\* C21 (as claimed): the snapshot's volume is None or within 1..31, and the
\* entity's volume, the native byte v of v / 31.0, is None or within 0..31,
\* i.e. the normalized volume lies in [0.0, 1.0].
C21_VolumeWithinRange ==
    /\ volume_level = None \/ volume_level \in 1..31
    /\ entity_volume = None \/ entity_volume \in 0..31

\* C22 (as claimed): while a set_volume / set_input / get_volume / get_input
\* that already went through the lock for its connection check has not yet
\* made its write or read, no connect() or disconnect() that acquired the
\* lock after it is inside a transport call.
C22_OperationsNotInterleaved ==
    \A p, q \in Procs :
        ~ /\ p # q
          /\ pc[q] = "op_lock"
          /\ op[p] \in {"connect", "disconnect"}
          /\ pc[p] \in TransportPcs

\* C23: _is_connecting is true only while the task that holds the lock is
\* inside the connect attempt of _ensure_connected (lines 56-89); whenever
\* the lock is free it is false, whichever way the attempt ended.
C23_ConnectingOnlyUnderLock ==
    /\ LockFree => ~is_connecting
    /\ is_connecting => pc[lockOwner] \in ConnectPcs
    /\ \A p \in Procs : pc[p] \in ConnectPcs => (lockOwner = p /\ is_connecting)

\* a connect attempt ended by an exception of client.connect(): the lock is
\* free again and the flag is reset
C23_Witness ==
    \E p \in Procs :
        /\ pc[p] = "done" /\ op[p] = "connect"
        /\ "connect" \in failed[p]
        /\ result[p] = RetBool(FALSE)
        /\ LockFree /\ ~is_connecting

\* C24: under fair scheduling, with every transport call returning or
\* raising, every call of connect, disconnect, set_volume, set_input,
\* get_volume and get_input that has started eventually returns, whatever
\* the other caller does.
C24_EveryCallReturns ==
    \A p \in Procs : (pc[p] \notin {"idle", "done"}) ~> (pc[p] = "done")

\* one call has returned after its transport calls and released the lock,
\* for which the other caller is waiting
C24_Witness ==
    \E p, q \in Procs :
        /\ p # q
        /\ pc[p] = "done" /\ touched[p]
        /\ LockFree
        /\ pc[q] \in {"ec_lock", "op_lock", "dc_lock"} /\ lockWaiters = <<q>>

\* C25 (as claimed): from the completion of async_turn_off until the next
\* async_turn_on, the session has no client and the entity is unavailable
\* with no volume and no input, whatever the coordinator's refreshes do.
C25_StaysOffAfterTurnOff ==
    turned_off =>
        /\ ~client
        /\ ~available
        /\ entity_volume = None /\ current_input = NoSource

\* C26: every volume the entity passes to set_volume lies in 1..31, so the
\* call is not rejected by the range check: async_set_volume_level clamps
\* any requested level; from a native volume k in 1..31, async_volume_up
\* sends min(31, k + 1) and async_volume_down sends max(1, k - 1).
C26_EntityVolumeInRange ==
    [][/\ (pc[ServiceProc] = "idle" /\ op'[ServiceProc] = "set_volume")
          => (arg'[ServiceProc] \in 1..31 /\ pc'[ServiceProc] = "ec_lock")
       /\ (VolumeUp /\ entity_volume \in 1..31)
          => arg'[ServiceProc] = (IF entity_volume = 31 THEN 31 ELSE entity_volume + 1)
       /\ (VolumeDown /\ entity_volume \in 1..31)
          => arg'[ServiceProc] = (IF entity_volume = 1 THEN 1 ELSE entity_volume - 1)]_vars

\* with the entity at native volume 1, a volume command for 1 (the floor of
\* async_volume_down) was accepted and written
C26_Witness ==
    /\ entity_volume = 1
    /\ op[ServiceProc] = "set_volume" /\ arg[ServiceProc] = 1
    /\ pc[ServiceProc] = "done" /\ result[ServiceProc] = RetBool(TRUE)

====
